---------------------------- MODULE Spec2Model ----------------------------
(* State-machine model of blast_process.py: the loader, the chunker, the   *)
(* submit / poll / fetch driver loop, the report extractor and the writer. *)
(*                                                                         *)
(* Text is a sequence of character tokens.  GT is ">", WS is any           *)
(* whitespace character (blank or newline), every positive token is a      *)
(* residue; residue k of a generated file is the token k, so that a unit   *)
(* of text identifies the place in the input it was cut from.              *)
EXTENDS Integers, Sequences, FiniteSets, TLC

VARIABLES pc, argv, input_file, chunks, i, rid, status, results,
          out, chunk_id, sequence_number, jobs, wire, arg, ret

vars == <<pc, argv, input_file, chunks, i, rid, status, results,
          out, chunk_id, sequence_number, jobs, wire, arg, ret>>

(***************************************************************************)
(* Program constants                                                       *)
(***************************************************************************)
chunk_size == 1000
max_sequence_length == 5000
unit_size == 20
identity_threshold == 99
bit_score_threshold == 54998

(***************************************************************************)
(* Bounds of the model                                                     *)
(***************************************************************************)
\* residues by which the longest input exceeds max_sequence_length
Overflow == 1
\* residues on one body line of a generated input file
LineWidth == 700

None == "None"
GT == -1
WS == 0

Min(a, b) == IF a <= b THEN a ELSE b

(***************************************************************************)
(* Python primitives used by the source                                    *)
(***************************************************************************)
\* s[a:b] for 0 <= a
Slice(s, a, b) == SubSeq(s, a + 1, Min(b, Len(s)))

\* str.strip(): drop leading and trailing whitespace
Strip(s) ==
    LET leading == Cardinality({k \in 1..Len(s) : \A m \in 1..k : s[m] = WS})
        trailing == Cardinality({k \in 1..Len(s) : \A m \in k..Len(s) : s[m] = WS})
    IN  IF leading = Len(s) THEN <<>>
        ELSE SubSeq(s, leading + 1, Len(s) - trailing)

\* range(0, n, step): how many values it has, its k-th value,
\* and the sequence of its values
RangeLen(n, step) == (n + step - 1) \div step
RangeAt(k, step) == (k - 1) * step
Range0(n, step) == [k \in 1..RangeLen(n, step) |-> RangeAt(k, step)]

(***************************************************************************)
(* split_sequence                                                          *)
(***************************************************************************)
\* as if the range stopped where a full chunk no longer fits
split_sequence_full_only(sequence, size) ==
    [k \in 1..RangeLen(Len(sequence) - size + 1, size) |->
        Slice(sequence, RangeAt(k, size), RangeAt(k, size) + size)]

\* [sequence[i:i + size] for i in range(0, len(sequence), size)]
split_sequence(sequence, size) ==
    [k \in 1..RangeLen(Len(sequence), size) |->
        Slice(sequence, RangeAt(k, size), RangeAt(k, size) + size)]


(***************************************************************************)
(* The file system: what open(input_file, "r") finds at each path          *)
(***************************************************************************)
\* the body of a generated file: residues 1..n
Body(n) == [k \in 1..n |-> k]

\* a record-header line ">id\n"
HeaderLine == <<GT, 1, 2, WS>>

\* n residues laid out on lines of LineWidth residues, each ended by "\n"
BodyLines(n) ==
    LET starts == Range0(n, LineWidth)
    IN  [k \in 1..Len(starts) |->
            Slice(Body(n), starts[k], starts[k] + LineWidth) \o <<WS>>]

TextFile(lines) == [kind |-> "text", lines |-> lines]

Paths == {"missing.fa", "unreadable.fa", "empty.fa", "short.fa",
          "two.fa", "exact.fa", "long.fa"}

FileAt(path) ==
    CASE path = "missing.fa"    -> [kind |-> "missing", lines |-> <<>>]
      [] path = "unreadable.fa" -> [kind |-> "unreadable", lines |-> <<>>]
      [] path = "empty.fa"      -> TextFile(<<HeaderLine, <<WS>>>>)
      [] path = "short.fa"      -> TextFile(BodyLines(30))
      [] path = "two.fa"        -> TextFile(<<HeaderLine>> \o BodyLines(chunk_size + 25))
      [] path = "exact.fa"      -> TextFile(<<HeaderLine>> \o BodyLines(2 * chunk_size))
      [] path = "long.fa"       ->
            TextFile(<<HeaderLine>> \o BodyLines(max_sequence_length + Overflow))

FS == [path \in Paths |-> FileAt(path)]

(***************************************************************************)
(* process_sequence                                                        *)
(***************************************************************************)
\* the loop over the lines of the file: the sequence read so far
RECURSIVE read_lines(_, _)
read_lines(lines, k) ==
    IF k = 0 THEN <<>>
    ELSE IF Len(lines[k]) > 0 /\ lines[k][1] = GT
         THEN read_lines(lines, k - 1)
         ELSE read_lines(lines, k - 1) \o Strip(lines[k])

\* as if line 119 were left out
load_sequence_untruncated(file, max_len) ==
    read_lines(file.lines, Len(file.lines))

\* the sequence after truncation
load_sequence(file, max_len) ==
    Slice(read_lines(file.lines, Len(file.lines)), 0, max_len)

\* as if a file that cannot be opened were read as an empty one
process_sequence_open_failure_ignored(path, max_len) ==
    [exit |-> "none",
     chunks |-> split_sequence(load_sequence(FS[path], max_len), chunk_size)]

\* exit: "none" (returned), "exit1" (exit(1) on FileNotFoundError),
\* "raise" (any other OSError is not caught)
process_sequence(path, max_len) ==
    LET file == FS[path]
    IN  CASE file.kind = "missing"    -> [exit |-> "exit1", chunks |-> <<>>]
          [] file.kind = "unreadable" -> [exit |-> "raise", chunks |-> <<>>]
          [] OTHER -> [exit |-> "none",
                       chunks |-> split_sequence(load_sequence(file, max_len),
                                                 chunk_size)]

(***************************************************************************)
(* Reports.  A report is a sequence of lines.  Of a line the extractor     *)
(* reads which of the four markers occur in it (tags) and the text between *)
(* the first ">" and the next "<" of the line (field).  A field is a       *)
(* decimal integer literal ("int", n its value), a decimal literal with    *)
(* one fractional digit ("dec", n its value in tenths) or text that is no  *)
(* number ("junk").                                                        *)
(***************************************************************************)
Tags == {"BlastOutput_iterations", "Hsp_identity", "Hsp_align-len", "Hsp_bit-score"}

IntField(n) == [k |-> "int", n |-> n]
DecField(tenths) == [k |-> "dec", n |-> tenths]
JunkField == [k |-> "junk", n |-> 0]

Line(tags, field) == [tags |-> tags, field |-> field]

\* int(text): a ValueError unless the text is an integer literal
can_int(field) == field.k = "int"
int_of(field) == field.n

\* float(text), in tenths: a ValueError on text that is no number
can_float(field) == field.k \in {"int", "dec"}
float_of(field) == IF field.k = "int" THEN 10 * field.n ELSE field.n

\* as if the marker were never looked for
has_iterations_not_tested(xml_result) == TRUE

\* "<BlastOutput_iterations>" in xml_result
has_iterations(xml_result) ==
    \E k \in 1..Len(xml_result) : "BlastOutput_iterations" \in xml_result[k].tags

\* A float that is a quotient times 100 is kept as the pair
\* <<numerator, denominator>> of the exact value; 0.0 is <<0, 1>>.
Zero == <<0, 1>>
percent(identity, align_len) == <<identity * 100, align_len>>

\* as if the bit score were compared with >=
qualifies_from_threshold(percent_identity, bit_score) ==
    /\ percent_identity[1] > identity_threshold * percent_identity[2]
    /\ bit_score >= 10 * bit_score_threshold

\* percent_identity > 99 and bit_score > 54998 (bit_score in tenths)
qualifies(percent_identity, bit_score) ==
    /\ percent_identity[1] > identity_threshold * percent_identity[2]
    /\ bit_score > 10 * bit_score_threshold

(***************************************************************************)
(* parse_blast_result_detailed                                             *)
(***************************************************************************)
\* as if percent_identity started again at 0.0 on a bit-score line whose
\* align_len is not positive
detailed_line_reset(line, st) ==
    IF "Hsp_identity" \in line.tags THEN
        IF can_int(line.field)
        THEN [st EXCEPT !.identity = int_of(line.field)]
        ELSE [st EXCEPT !.raised = TRUE]
    ELSE IF "Hsp_align-len" \in line.tags THEN
        IF can_int(line.field)
        THEN [st EXCEPT !.align_len = int_of(line.field), !.align_len_set = TRUE]
        ELSE [st EXCEPT !.raised = TRUE]
    ELSE IF "Hsp_bit-score" \in line.tags THEN
        IF ~can_float(line.field) THEN [st EXCEPT !.raised = TRUE]
        ELSE LET bs == float_of(line.field)
                 pi == IF st.align_len_set /\ st.align_len > 0
                       THEN percent(st.identity, st.align_len)
                       ELSE Zero
             IN  [st EXCEPT !.bit_score = bs,
                            !.percent_identity = pi,
                            !.matches = IF qualifies(pi, bs)
                                        THEN Append(@, 1) ELSE @]
    ELSE st

\* the body of the for loop, on one line; st holds the local variables
detailed_line(line, st) ==
    IF "Hsp_identity" \in line.tags THEN
        IF can_int(line.field)
        THEN [st EXCEPT !.identity = int_of(line.field)]
        ELSE [st EXCEPT !.raised = TRUE]
    ELSE IF "Hsp_align-len" \in line.tags THEN
        IF can_int(line.field)
        THEN [st EXCEPT !.align_len = int_of(line.field), !.align_len_set = TRUE]
        ELSE [st EXCEPT !.raised = TRUE]
    ELSE IF "Hsp_bit-score" \in line.tags THEN
        IF ~can_float(line.field) THEN [st EXCEPT !.raised = TRUE]
        ELSE LET bs == float_of(line.field)
                 pi == IF st.align_len_set /\ st.align_len > 0
                       THEN percent(st.identity, st.align_len)
                       ELSE st.percent_identity
             IN  [st EXCEPT !.bit_score = bs,
                            !.percent_identity = pi,
                            !.matches = IF qualifies(pi, bs)
                                        THEN Append(@, 1) ELSE @]
    ELSE st

RECURSIVE detailed_scan(_, _, _)
detailed_scan(xml_result, k, st) ==
    IF k > Len(xml_result) \/ st.raised THEN st
    ELSE detailed_scan(xml_result, k + 1, detailed_line(xml_result[k], st))

\* as if "if matches: best_match_id = 1" were left out
Verdict_match_dropped(raised, id, pi, bs) ==
    [raised |-> raised, best_match_id |-> -1,
     percent_identity |-> pi, bit_score |-> bs]

\* as if the values were returned as 0.0 when no line qualified
Verdict_zero_without_match(raised, id, pi, bs) ==
    [raised |-> raised, best_match_id |-> id,
     percent_identity |-> IF id = 1 THEN pi ELSE Zero,
     bit_score |-> IF id = 1 THEN bs ELSE 0]

\* lines 158-161: the triple returned
Verdict(raised, id, pi, bs) ==
    [raised |-> raised, best_match_id |-> id,
     percent_identity |-> pi, bit_score |-> bs]

parse_blast_result_detailed(xml_result) ==
    IF ~has_iterations(xml_result) THEN Verdict(FALSE, -1, Zero, 0)
    ELSE LET st == detailed_scan(xml_result, 1,
                       [matches |-> <<>>, percent_identity |-> Zero,
                        bit_score |-> 0, align_len |-> 0, align_len_set |-> FALSE,
                        identity |-> 0, raised |-> FALSE])
         IN  IF st.raised THEN Verdict(TRUE, -1, Zero, 0)
             ELSE Verdict(FALSE, IF st.matches # <<>> THEN 1 ELSE -1,
                          st.percent_identity, st.bit_score)

(***************************************************************************)
(* parse_blast_result                                                      *)
(***************************************************************************)
\* the three ifs of the loop body are tried in turn on every line;
\* identity is unbound until an identity line assigns it (identity_set)
simple_identity(line, st) ==
    IF "Hsp_identity" \in line.tags /\ ~st.raised THEN
        IF can_int(line.field)
        THEN [st EXCEPT !.identity = int_of(line.field), !.identity_set = TRUE]
        ELSE [st EXCEPT !.raised = TRUE]
    ELSE st

simple_align_len(line, st) ==
    IF "Hsp_align-len" \in line.tags /\ ~st.raised THEN
        IF can_int(line.field)
        THEN [st EXCEPT !.align_len = int_of(line.field)]
        ELSE [st EXCEPT !.raised = TRUE]
    ELSE st

simple_bit_score(line, st) ==
    IF "Hsp_bit-score" \in line.tags /\ ~st.raised THEN
        IF ~can_float(line.field) THEN [st EXCEPT !.raised = TRUE]
        ELSE IF st.align_len > 0 /\ ~st.identity_set
        THEN [st EXCEPT !.bit_score = float_of(line.field), !.raised = TRUE]
        ELSE LET bs == float_of(line.field)
                 pi == IF st.align_len > 0
                       THEN percent(st.identity, st.align_len)
                       ELSE st.percent_identity
             IN  [st EXCEPT !.bit_score = bs,
                            !.percent_identity = pi,
                            !.matches = IF qualifies(pi, bs)
                                        THEN Append(@, 1) ELSE @]
    ELSE st

simple_line(line, st) ==
    simple_bit_score(line, simple_align_len(line, simple_identity(line, st)))

RECURSIVE simple_scan(_, _, _)
simple_scan(xml_result, k, st) ==
    IF k > Len(xml_result) \/ st.raised THEN st
    ELSE simple_scan(xml_result, k + 1, simple_line(xml_result[k], st))

SimpleVerdict(raised, id) == [raised |-> raised, best_match_id |-> id]

parse_blast_result(xml_result) ==
    IF ~has_iterations(xml_result) THEN SimpleVerdict(FALSE, -1)
    ELSE LET st == simple_scan(xml_result, 1,
                       [matches |-> <<>>, percent_identity |-> Zero,
                        bit_score |-> 0, align_len |-> 0, identity |-> 0,
                        identity_set |-> FALSE, raised |-> FALSE])
         IN  IF st.raised THEN SimpleVerdict(TRUE, -1)
             ELSE SimpleVerdict(FALSE, IF st.matches # <<>> THEN 1 ELSE -1)

(***************************************************************************)
(* write_results_to_file                                                   *)
(***************************************************************************)
\* lines 170-173: the chunk cut into parts of 20 and one line written per
\* part, the counter going up by one per line; w is [lines, sequence_number,
\* raised]
write_parts(chunk, best_match_id, w) ==
    [w EXCEPT !.lines = @ \o [k \in 1..RangeLen(Len(chunk), unit_size) |->
                                [sequence_number |-> w.sequence_number + (k - 1),
                                 part |-> Slice(chunk, RangeAt(k, unit_size),
                                                RangeAt(k, unit_size) + unit_size),
                                 best_match_id |-> best_match_id]],
              !.sequence_number = @ + RangeLen(Len(chunk), unit_size)]

\* as if the counter were set to 1 inside the outer loop
write_pair_counter_reset(chunk, verdict, w) ==
    IF verdict.raised THEN [w EXCEPT !.raised = TRUE]
    ELSE write_parts(chunk, verdict.best_match_id,
                     [w EXCEPT !.sequence_number = 1])

\* lines 169-173: the body of the outer loop on one chunk, verdict being
\* what parse_blast_result_detailed made of the result paired with it
write_pair(chunk, verdict, w) ==
    IF verdict.raised THEN [w EXCEPT !.raised = TRUE]
    ELSE write_parts(chunk, verdict.best_match_id, w)

\* zip(chunks, results) has as many pairs as the shorter list
zip_length(chunk_list, result_list) == Min(Len(chunk_list), Len(result_list))

\* as if the file were opened by the first write
new_file_on_first_write == [created |-> FALSE, lines |-> <<>>, raised |-> FALSE]

\* open(output_file, "w"): the file exists and is empty
new_file == [created |-> TRUE, lines |-> <<>>, raised |-> FALSE]

NoFile == [created |-> FALSE, lines |-> <<>>, raised |-> FALSE]

(***************************************************************************)
(* The remote service: what a response body can hold                       *)
(***************************************************************************)
\* the job identifier the service gives the job of chunk k
RID(k) == "RID" \o ToString(k)

\* bodies answering a Put for chunk k: without the "RID = " marker, with the
\* marker and nothing but blanks up to the newline, with the marker and a token
PutBodies(k) == {[marker |-> FALSE, token |-> ""],
                 [marker |-> TRUE, token |-> ""],
                 [marker |-> TRUE, token |-> RID(k)]}

\* bodies answering a status request: which of the two tokens occur in them
StatusBodies == SUBSET {"Status=READY", "Status=WAITING"}

\* a record that qualifies, one that does not, no iterations section,
\* a record whose identity field is no number
Record(identity, align_len, bit_score) ==
    <<Line({"Hsp_identity"}, identity),
      Line({"Hsp_align-len"}, align_len),
      Line({"Hsp_bit-score"}, bit_score)>>

Iterations == <<Line({"BlastOutput_iterations"}, JunkField)>>

ReportHit == Iterations \o Record(IntField(1000), IntField(1000), DecField(549991))
ReportMiss == Iterations \o Record(IntField(990), IntField(1000), DecField(549991))
ReportBad == Iterations \o Record(JunkField, IntField(1000), DecField(549991))

FetchBodies == {ReportHit, ReportMiss, ReportBad}

(***************************************************************************)
(* submit_blast_query, check_blast_status, fetch_blast_results             *)
(***************************************************************************)
submit_blast_query(body) == IF body.marker THEN body.token ELSE None

\* as if a WAITING answer ended the polling too
check_blast_status_any_answer(body) ==
    IF "Status=READY" \in body THEN "True"
    ELSE IF "Status=WAITING" \in body THEN "True"
    ELSE None

\* as if a READY answer were taken for WAITING
check_blast_status_ready_as_waiting(body) ==
    IF "Status=READY" \in body THEN "False"
    ELSE IF "Status=WAITING" \in body THEN "False"
    ELSE None

\* as if an answer with neither token ended the polling
check_blast_status_unknown_as_ready(body) ==
    IF "Status=READY" \in body THEN "True"
    ELSE IF "Status=WAITING" \in body THEN "False"
    ELSE "True"

check_blast_status(body) ==
    IF "Status=READY" \in body THEN "True"
    ELSE IF "Status=WAITING" \in body THEN "False"
    ELSE None

fetch_blast_results(body) == body

\* as if the test were "rid is None"
falsy_none_only(r) == r = None

\* as if the test were inverted: "if rid"
falsy_inverted(r) == ~(r = None \/ r = "")

\* not rid
falsy(r) == r = None \/ r = ""

(***************************************************************************)
(* The driver (__main__).  pc is the place in the script:                  *)
(*   start  the argument check        load   process_sequence              *)
(*   loop   the head of the for loop  poll   check_blast_status            *)
(*   sleep  time.sleep(5)             fetch  fetch_blast_results           *)
(*   write  the loop of write_results_to_file                              *)
(*   done   ended normally            exit1  ended by exit(1)              *)
(*   error  ended by an exception that nothing catches                     *)
(* jobs[k] records the exchange with the service about chunk k: how often  *)
(* it was submitted, the identifier returned, whether its status was asked *)
(* for, the identifier a READY answer was given for, how often its report  *)
(* was fetched and the report returned; wire is the last request sent.     *)
(***************************************************************************)
NoJob == [submits |-> 0, rid |-> None, polled |-> FALSE, ready_rid |-> None,
          fetches |-> 0, report |-> <<>>]

NoRequest == [cmd |-> "none", of |-> 0, rid |-> None]

Init ==
    /\ pc = "start"
    /\ argv \in {<<"blast_process.py">>} \cup
                {<<"blast_process.py", p>> : p \in Paths}
    /\ input_file = None
    /\ chunks = <<>>
    /\ i = 0
    /\ rid = None
    /\ status = None
    /\ results = <<>>
    /\ out = NoFile
    /\ chunk_id = 0
    /\ sequence_number = 0
    /\ jobs = <<>>
    /\ wire = NoRequest
    /\ arg = None
    /\ ret = None

\* lines 180-184
ArgCheck ==
    /\ pc = "start"
    /\ IF Len(argv) < 2
       THEN pc' = "exit1" /\ UNCHANGED input_file
       ELSE pc' = "load" /\ input_file' = argv[2]
    /\ UNCHANGED <<argv, chunks, i, rid, status, results, out, chunk_id,
                   sequence_number, jobs, wire, arg, ret>>

\* process_sequence(path) for every path, worked out once
Loaded == [path \in Paths |-> process_sequence(path, max_sequence_length)]

\* lines 187-190, and the first chunk of the for loop taken up
Load ==
    /\ pc = "load"
    /\ LET r == Loaded[input_file]
       IN  IF r.exit = "none"
           THEN /\ chunks' = r.chunks
                /\ jobs' = [k \in 1..Len(r.chunks) |-> NoJob]
                /\ i' = 1
                /\ pc' = "loop"
           ELSE /\ pc' = IF r.exit = "exit1" THEN "exit1" ELSE "error"
                /\ UNCHANGED <<chunks, jobs, i>>
    /\ results' = <<>>
    /\ UNCHANGED <<argv, input_file, rid, status, out, chunk_id, sequence_number,
                   wire, arg, ret>>

\* lines 192-197: the next chunk is submitted; without a job identifier
\* the loop goes on to the chunk after it
Submit ==
    /\ pc = "loop"
    /\ i <= Len(chunks)
    /\ \E body \in PutBodies(i) :
          /\ rid' = submit_blast_query(body)
          /\ wire' = [cmd |-> "Put", of |-> i, rid |-> None]
          /\ jobs' = [jobs EXCEPT ![i].submits = @ + 1, ![i].rid = rid']
          /\ IF falsy(rid')
             THEN pc' = "loop" /\ i' = i + 1
             ELSE pc' = "poll" /\ i' = i
    /\ UNCHANGED <<argv, input_file, chunks, status, results, out, chunk_id,
                   sequence_number, arg, ret>>

\* as if the else branch (lines 206-208) slept like the elif branch
Poll_sleep_on_unknown ==
    /\ pc = "poll"
    /\ \E body \in StatusBodies :
          /\ status' = check_blast_status(body)
          /\ wire' = [cmd |-> "Status", of |-> i, rid |-> rid]
          /\ jobs' = [jobs EXCEPT ![i].polled = TRUE,
                                  ![i].ready_rid = IF "Status=READY" \in body
                                                   THEN rid ELSE @]
          /\ pc' = IF status' = "True" THEN "fetch" ELSE "sleep"
    /\ UNCHANGED <<argv, input_file, chunks, i, rid, results, out, chunk_id,
                   sequence_number, arg, ret>>

\* lines 200-208, one pass of the while loop up to the sleep
Poll ==
    /\ pc = "poll"
    /\ \E body \in StatusBodies :
          /\ status' = check_blast_status(body)
          /\ wire' = [cmd |-> "Status", of |-> i, rid |-> rid]
          /\ jobs' = [jobs EXCEPT ![i].polled = TRUE,
                                  ![i].ready_rid = IF "Status=READY" \in body
                                                   THEN rid ELSE @]
          /\ pc' = CASE status' = "True"  -> "fetch"
                     [] status' = "False" -> "sleep"
                     [] OTHER             -> "poll"
    /\ UNCHANGED <<argv, input_file, chunks, i, rid, results, out, chunk_id,
                   sequence_number, arg, ret>>

\* line 205
Sleep ==
    /\ pc = "sleep"
    /\ pc' = "poll"
    /\ UNCHANGED <<argv, input_file, chunks, i, rid, status, results, out,
                   chunk_id, sequence_number, jobs, wire, arg, ret>>

\* line 211, and the next chunk of the for loop taken up
Fetch ==
    /\ pc = "fetch"
    /\ \E body \in FetchBodies :
          /\ results' = Append(results, fetch_blast_results(body))
          /\ jobs' = [jobs EXCEPT ![i].fetches = @ + 1, ![i].report = body]
    /\ wire' = [cmd |-> "Fetch", of |-> i, rid |-> rid]
    /\ i' = i + 1
    /\ pc' = "loop"
    /\ UNCHANGED <<argv, input_file, chunks, rid, status, out, chunk_id,
                   sequence_number, arg, ret>>

\* lines 213-218 and 166-167, once the for loop has run out of chunks:
\* the output file is opened and the counter set to 1
OpenOutput ==
    /\ pc = "loop"
    /\ i > Len(chunks)
    /\ out' = new_file
    /\ sequence_number' = 1
    /\ chunk_id' = 1
    /\ pc' = "write"
    /\ UNCHANGED <<argv, input_file, chunks, i, rid, status, results,
                   jobs, wire, arg, ret>>

\* lines 168-173: one pass of the outer loop of write_results_to_file;
\* an exception of the extractor ends the script, the lines written stay
WritePair ==
    /\ pc = "write"
    /\ chunk_id <= zip_length(chunks, results)
    /\ \E verdict \in {parse_blast_result_detailed(results[chunk_id])} :
       \E w \in {write_pair(chunks[chunk_id], verdict,
                             [lines |-> out.lines,
                              sequence_number |-> sequence_number,
                              raised |-> FALSE])} :
          /\ out' = [out EXCEPT !.lines = w.lines, !.raised = w.raised]
          /\ sequence_number' = w.sequence_number
          /\ pc' = IF w.raised THEN "error" ELSE "write"
    /\ chunk_id' = chunk_id + 1
    /\ UNCHANGED <<argv, input_file, chunks, i, rid, status, results,
                   jobs, wire, arg, ret>>

\* the loop of write_results_to_file runs out of pairs; line 220
CloseOutput ==
    /\ pc = "write"
    /\ chunk_id > zip_length(chunks, results)
    /\ pc' = "done"
    /\ UNCHANGED <<argv, input_file, chunks, i, rid, status, results, out,
                   chunk_id, sequence_number, jobs, wire, arg, ret>>

\* the exit status of the process: 0 after the last statement, 1 after
\* exit(1) and after an exception nothing catches, -1 while it runs
exit_status ==
    CASE pc = "done" -> 0
      [] pc \in {"exit1", "error"} -> 1
      [] OTHER -> -1

Next == \/ ArgCheck \/ Load \/ Submit \/ Poll \/ Sleep \/ Fetch
        \/ OpenOutput \/ WritePair \/ CloseOutput

Spec == Init /\ [][Next]_vars

\* what the scheduler guarantees: the script is one thread that always
\* takes its next step
FairSpec == Spec /\ WF_vars(Next)

(***************************************************************************)
(* The functions on their own: a call with arguments drawn from bounded    *)
(* sets (arg), and what it returns (ret).  The driver's variables rest.    *)
(***************************************************************************)
\* longest sequence and largest chunk_size handed to split_sequence
MaxSeqLen == 5
MaxChunkSize == 3
\* most lines of a report handed to the extractors
MaxLines == 5
\* most chunks, and most results, handed to write_results_to_file
MaxTestChunks == 2

Alphabet == {1, 2}

SeqsUpTo(S, n) == UNION {[1..m -> S] : m \in 0..n}

DriverAtRest ==
    /\ argv = <<"blast_process.py">>
    /\ input_file = None
    /\ rid = None
    /\ status = None
    /\ jobs = <<>>
    /\ wire = NoRequest

driver_vars == <<argv, input_file, rid, status, jobs, wire>>

\* ---- split_sequence(sequence, chunk_size) ----
SplitInit ==
    /\ DriverAtRest
    /\ i = 0 /\ chunks = <<>> /\ results = <<>>
    /\ out = NoFile /\ chunk_id = 0 /\ sequence_number = 0
    /\ pc = "split"
    /\ arg \in [sequence : SeqsUpTo(Alphabet, MaxSeqLen), size : 1..MaxChunkSize]
    /\ ret = <<>>

SplitCall ==
    /\ pc = "split"
    /\ ret' = split_sequence(arg.sequence, arg.size)
    /\ pc' = "split_done"
    /\ UNCHANGED <<driver_vars, i, chunks, results, out, chunk_id,
                   sequence_number, arg>>

SplitSpec == SplitInit /\ [][SplitCall]_vars

\* ---- parse_blast_result(xml_result), parse_blast_result_detailed(xml_result) ----
TestLines ==
    {Line({"Hsp_identity"}, f) : f \in {IntField(99), IntField(100), JunkField}}
    \cup {Line({"Hsp_align-len"}, f) : f \in {IntField(0), IntField(100)}}
    \cup {Line({"Hsp_bit-score"}, f) : f \in {IntField(54998), IntField(54999)}}

TestReports ==
    {head \o body : head \in {<<>>, Iterations}, body \in SeqsUpTo(TestLines, MaxLines)}

ExtractInit ==
    /\ DriverAtRest
    /\ i = 0 /\ chunks = <<>> /\ results = <<>>
    /\ out = NoFile /\ chunk_id = 0 /\ sequence_number = 0
    /\ pc = "extract"
    /\ arg \in TestReports
    /\ ret = [simple |-> SimpleVerdict(FALSE, -1), detailed |-> Verdict(FALSE, -1, Zero, 0)]

ExtractCall ==
    /\ pc = "extract"
    /\ ret' = [simple |-> parse_blast_result(arg),
               detailed |-> parse_blast_result_detailed(arg)]
    /\ pc' = "extract_done"
    /\ UNCHANGED <<driver_vars, i, chunks, results, out, chunk_id,
                   sequence_number, arg>>

ExtractSpec == ExtractInit /\ [][ExtractCall]_vars

\* ---- write_results_to_file(chunks, results, output_file) ----
TestLengths == {5, unit_size, unit_size + 5, 2 * unit_size + 1}

\* the k-th chunk of a list, n residues long, cut at chunk_size * (k - 1)
TestChunk(k, n) == [j \in 1..n |-> chunk_size * (k - 1) + j]

TestChunkLists ==
    {[k \in 1..Len(lens) |-> TestChunk(k, lens[k])] :
        lens \in SeqsUpTo(TestLengths, MaxTestChunks)}

\* the driver where it calls the writer, with these lists for arguments
WriterInit ==
    /\ DriverAtRest
    /\ pc = "loop"
    /\ chunks \in TestChunkLists
    /\ i = Len(chunks) + 1
    /\ results \in SeqsUpTo(FetchBodies, MaxTestChunks)
    /\ out = NoFile /\ chunk_id = 0 /\ sequence_number = 0
    /\ arg = None
    /\ ret = None

WriterNext == OpenOutput \/ WritePair \/ CloseOutput

WriterSpec == WriterInit /\ [][WriterNext]_vars

(***************************************************************************)
(* Vocabulary of the properties                                            *)
(***************************************************************************)
\* the first k sequences of ss, concatenated
RECURSIVE ConcatTo(_, _)
ConcatTo(ss, k) == IF k = 0 THEN <<>> ELSE ConcatTo(ss, k - 1) \o ss[k]

Concat(ss) == ConcatTo(ss, Len(ss))

\* a job identifier: a token that is not blank
IsJobId(r) == r \notin {None, ""}

\* the lifecycle of chunk k, read off the exchange with the service
Life(k) ==
    IF jobs[k].submits = 0 THEN "Idle"
    ELSE IF ~IsJobId(jobs[k].rid) THEN "Skipped"
    ELSE IF jobs[k].fetches > 0 THEN "Done"
    ELSE IF jobs[k].ready_rid # None THEN "Ready"
    ELSE "Waiting"

LifeEdges == {<<"Idle", "Waiting">>, <<"Idle", "Skipped">>,
              <<"Waiting", "Ready">>, <<"Ready", "Done">>}

Final == {"done", "exit1", "error"}

\* the chunk of chunk_list a unit of text was cut from
OwnerIn(chunk_list, part) ==
    CHOOSE k \in 1..Len(chunk_list) :
        \E j \in 1..Len(chunk_list[k]) : chunk_list[k][j] = part[1]

(***************************************************************************)
(* C5: for every string S and positive chunk_size C, the chunks returned   *)
(* by split_sequence(S, C) concatenate to S, every chunk but the last has  *)
(* length C, the last has length len(S) mod C (C when C divides len(S)),   *)
(* and the empty string gives no chunk.                                    *)
(***************************************************************************)
C5_ChunkCoverage ==
    pc = "split_done" =>
        LET S == arg.sequence
            C == arg.size
            n == Len(ret)
        IN  /\ Concat(ret) = S
            /\ \A k \in 1..(n - 1) : Len(ret[k]) = C
            /\ n > 0 => Len(ret[n]) = IF Len(S) % C = 0 THEN C ELSE Len(S) % C
            /\ S = <<>> => ret = <<>>

C5_Witness ==
    /\ pc = "split_done"
    /\ Len(arg.sequence) = 5 /\ arg.size = 2
    /\ Len(ret) = 3 /\ Len(ret[3]) = 1

(***************************************************************************)
(* C10: the threshold is strict on both fields.  A report with the         *)
(* iterations marker and one record yields 1 in both extractors exactly    *)
(* when identity / align_len * 100 > 99 and bit_score > 54998: identity    *)
(* 100, align_len 100, bit_score 54999 yields 1; the same with bit_score   *)
(* 54998 yields -1; identity 99, align_len 100 yields -1 whatever the bit  *)
(* score.                                                                  *)
(***************************************************************************)
OneRecord(identity, align_len, bit_score) ==
    Iterations \o Record(IntField(identity), IntField(align_len), IntField(bit_score))

\* arg is the iterations marker and one record of integer fields
IsOneRecord ==
    /\ Len(arg) = 4
    /\ \A k \in 2..4 : arg[k].field.k = "int"
    /\ arg = OneRecord(arg[2].field.n, arg[3].field.n, arg[4].field.n)
    /\ arg[3].field.n > 0

BothYield(id) ==
    /\ ret.simple = [raised |-> FALSE, best_match_id |-> id]
    /\ ~ret.detailed.raised
    /\ ret.detailed.best_match_id = id

C10_StrictThreshold ==
    pc = "extract_done" =>
        /\ arg = OneRecord(100, 100, 54999) => BothYield(1)
        /\ arg = OneRecord(100, 100, 54998) => BothYield(-1)
        /\ \A bs \in {54998, 54999} : arg = OneRecord(99, 100, bs) => BothYield(-1)
        /\ IsOneRecord =>
              BothYield(IF /\ 100 * arg[2].field.n > 99 * arg[3].field.n
                           /\ arg[4].field.n > 54998
                        THEN 1 ELSE -1)

C10_Witness ==
    /\ pc = "extract_done"
    /\ arg = OneRecord(100, 100, 54999)
    /\ BothYield(1)

(***************************************************************************)
(* C1: every chunk follows Idle -> Waiting -> Ready -> Done (or Idle ->    *)
(* Skipped).  A status request is sent only for the identifier the submit  *)
(* of that chunk returned, a fetch only for the identifier a status        *)
(* request of that chunk was answered READY for, and no chunk is submitted *)
(* or fetched more than once.                                              *)
(***************************************************************************)
C1_AtMostOnce ==
    \A k \in 1..Len(jobs) : jobs[k].submits <= 1 /\ jobs[k].fetches <= 1

C1_PollAfterSubmit ==
    wire.cmd = "Status" =>
        /\ IsJobId(wire.rid)
        /\ jobs[wire.of].submits = 1
        /\ jobs[wire.of].rid = wire.rid

C1_FetchAfterReady ==
    wire.cmd = "Fetch" =>
        /\ IsJobId(wire.rid)
        /\ jobs[wire.of].rid = wire.rid
        /\ jobs[wire.of].ready_rid = wire.rid

C1_Edges ==
    \A k \in 1..Min(Len(jobs), Len(jobs')) :
        Life(k)' # Life(k) => <<Life(k), Life(k)'>> \in LifeEdges

C1_Lifecycle ==
    /\ [](C1_AtMostOnce /\ C1_PollAfterSubmit /\ C1_FetchAfterReady)
    /\ [][C1_Edges]_vars

C1_Witness ==
    /\ wire.cmd = "Fetch"
    /\ Life(wire.of) = "Done"
    /\ status = "True"

(***************************************************************************)
(* C2: a chunk whose submit returned no job identifier is Skipped for      *)
(* good: no status request and no fetch is sent for it and no report is    *)
(* appended for it; the step that skips it leaves the run in the loop at   *)
(* the next chunk, the run never exits before the writer, and the chunks   *)
(* are submitted in order, all of them by the time the file is written.    *)
(***************************************************************************)
C2_NothingAsked ==
    \A k \in 1..Len(jobs) :
        Life(k) = "Skipped" =>
            /\ ~jobs[k].polled
            /\ jobs[k].ready_rid = None
            /\ jobs[k].fetches = 0
            /\ wire.of = k => wire.cmd = "Put"

C2_NoReport ==
    Len(results) = Cardinality({k \in 1..Len(jobs) : jobs[k].fetches > 0})

C2_RunGoesOn ==
    /\ pc = "exit1" => jobs = <<>>
    /\ pc = "error" => (jobs = <<>> \/ out.raised)
    /\ \A k \in 1..Len(jobs) :
          jobs[k].submits > 0 => \A j \in 1..(k - 1) : jobs[j].submits > 0
    /\ out.created => \A k \in 1..Len(jobs) : jobs[k].submits = 1

C2_SkipStep ==
    \A k \in 1..Min(Len(jobs), Len(jobs')) :
        (Life(k) = "Idle" /\ Life(k)' = "Skipped") =>
            /\ results' = results
            /\ pc' = "loop"
            /\ i' = k + 1
            /\ \A j \in 1..Len(jobs) : j # k => Life(j)' = Life(j)

C2_SkippedIsTerminal ==
    /\ [](C2_NothingAsked /\ C2_NoReport /\ C2_RunGoesOn)
    /\ [][C2_SkipStep]_vars

C2_Witness ==
    /\ pc = "done"
    /\ \E k \in 1..(Len(jobs) - 1) :
          /\ Life(k) = "Skipped"
          /\ Life(k + 1) = "Done"

(***************************************************************************)
(* C7: chunks are handled one at a time in order: a chunk is submitted     *)
(* only when every chunk before it is Done or Skipped, and at most one job *)
(* is outstanding.                                                         *)
(***************************************************************************)
C7_Sequential ==
    /\ \A k \in 1..Len(jobs) :
          jobs[k].submits > 0 =>
              \A j \in 1..(k - 1) : Life(j) \in {"Done", "Skipped"}
    /\ Cardinality({k \in 1..Len(jobs) : Life(k) \in {"Waiting", "Ready"}}) <= 1

C7_Witness ==
    /\ Len(jobs) >= 3
    /\ Life(1) = "Done"
    /\ Life(2) = "Waiting"
    /\ Life(3) = "Idle"

(***************************************************************************)
(* C9: when the input yields chunks and every submit returns no job        *)
(* identifier, no status request and no fetch is sent, the results list    *)
(* stays empty, and the run ends normally with the output file created and *)
(* no line in it; so for the one chunk of a 30-character input.            *)
(***************************************************************************)
AllFailedSoFar == \A k \in 1..Len(jobs) : ~IsJobId(jobs[k].rid)

C9_NothingFetched ==
    (jobs # <<>> /\ AllFailedSoFar) =>
        /\ wire.cmd \in {"none", "Put"}
        /\ results = <<>>
        /\ pc \in {"loop", "write", "done"}
        /\ pc = "loop" => out = NoFile
        /\ pc \in {"write", "done"} =>
              out = [created |-> TRUE, lines |-> <<>>, raised |-> FALSE]

C9_Completes ==
    (<>(jobs # <<>>) /\ []AllFailedSoFar) =>
        <>(pc = "done" /\ out.created /\ out.lines = <<>>)

C9_AllSubmitsFail == []C9_NothingFetched /\ C9_Completes

C9_Witness ==
    /\ input_file = "short.fa"
    /\ pc = "done"
    /\ Len(chunks) = 1 /\ Len(chunks[1]) = 30
    /\ jobs[1].submits = 1 /\ ~IsJobId(jobs[1].rid)
    /\ results = <<>>
    /\ out.created /\ out.lines = <<>>

(***************************************************************************)
(* C3: every line of the output carries the match id of the report that    *)
(* was fetched for the chunk its text was cut from.                        *)
(***************************************************************************)
C3_OwnVerdict ==
    \A n \in 1..Len(out.lines) :
            LET k == OwnerIn(chunks, out.lines[n].part)
            IN  /\ jobs[k].fetches = 1
                /\ out.lines[n].best_match_id =
                      parse_blast_result_detailed(jobs[k].report).best_match_id

(***************************************************************************)
(* C6: when every submission succeeded, the texts of the output lines, in  *)
(* file order, concatenate to the truncated input sequence, one line per   *)
(* 20-character unit.                                                      *)
(***************************************************************************)
AllSubmitted == \A k \in 1..Len(jobs) : jobs[k].submits = 1 /\ IsJobId(jobs[k].rid)

C6_OutputCoversInput ==
    (pc \in {"done", "error"} /\ jobs # <<>> /\ AllSubmitted) =>
        /\ out.created
        /\ Concat([n \in 1..Len(out.lines) |-> out.lines[n].part])
              = load_sequence(FS[input_file], max_sequence_length)
        /\ \A n \in 1..(Len(out.lines) - 1) : Len(out.lines[n].part) = unit_size

(***************************************************************************)
(* C8: every run ends.  As amended: a run ends in a fatal input error with *)
(* no output file, or ends with the output file opened, or it stays for    *)
(* ever in the poll loop of a job for which no READY answer ever came.     *)
(***************************************************************************)
C8_AlwaysTerminates == <>(pc \in Final)

C8_TerminatesUnlessNeverReady ==
    \/ <>(pc \in {"exit1", "error"} /\ ~out.created /\ jobs = <<>>)
    \/ <>(pc \in {"done", "error"} /\ out.created)
    \/ <>[](pc \in {"poll", "sleep"} /\ jobs[i].ready_rid = None)

C8_Witness ==
    /\ pc = "done"
    /\ out.created
    /\ Len(results) = Len(chunks)
    /\ Len(chunks) >= 2

(***************************************************************************)
(* C4: the sequence numbers of the lines written are 1, 2, ..., N in the   *)
(* order written, not starting again at a chunk boundary, and the lines of *)
(* one chunk carry one match id; two chunks of length 25 give the numbers  *)
(* 1, 2, 3, 4 on units of length 20, 5, 20, 5.                             *)
(***************************************************************************)
C4_GlobalNumbering ==
    /\ \A n \in 1..Len(out.lines) : out.lines[n].sequence_number = n
    /\ \A m, n \in 1..Len(out.lines) :
          OwnerIn(chunks, out.lines[m].part) = OwnerIn(chunks, out.lines[n].part)
              => out.lines[m].best_match_id = out.lines[n].best_match_id
    /\ (/\ pc = "done"
        /\ chunks = <<TestChunk(1, 25), TestChunk(2, 25)>>
        /\ Len(results) = 2)
          => /\ [n \in 1..Len(out.lines) |-> out.lines[n].sequence_number]
                  = <<1, 2, 3, 4>>
             /\ [n \in 1..Len(out.lines) |-> Len(out.lines[n].part)]
                  = <<20, 5, 20, 5>>

C4_Witness ==
    /\ pc = "done"
    /\ chunks = <<TestChunk(1, 25), TestChunk(2, 25)>>
    /\ Len(out.lines) = 4
    /\ out.lines[4].sequence_number = 4
    /\ out.lines[2].best_match_id = 1
    /\ out.lines[3].best_match_id = -1

(***************************************************************************)
(* C11: a report without the iterations marker yields -1 with percent      *)
(* identity 0.0 and bit score 0.0 in detailed mode (and -1 in simple       *)
(* mode), whatever identity, alignment-length and bit-score lines it       *)
(* holds, lines of a record that qualifies included.                       *)
(***************************************************************************)
NoMarker(xml_result) ==
    \A k \in 1..Len(xml_result) : "BlastOutput_iterations" \notin xml_result[k].tags

C11_NoIterations ==
    (pc = "extract_done" /\ NoMarker(arg)) =>
        /\ ret.detailed = Verdict(FALSE, -1, Zero, 0)
        /\ ret.simple = SimpleVerdict(FALSE, -1)

C11_Witness ==
    /\ pc = "extract_done"
    /\ arg = Record(IntField(100), IntField(100), IntField(54999))
    /\ ret.detailed.best_match_id = -1
    /\ ret.detailed.bit_score = 0

(***************************************************************************)
(* C12: in detailed mode the percent identity and the bit score returned   *)
(* are those of the record that qualifies, and both are 0.0 when no record *)
(* qualifies.  As amended: the values returned are above both thresholds   *)
(* only with the verdict 1, and both are 0.0 when the report has no        *)
(* iterations marker or no bit-score line; with -1 they may be the values  *)
(* of a record that does not qualify, and with 1 those of a later record   *)
(* that does not qualify.                                                  *)
(***************************************************************************)
\* the lines on which the bit-score branch of the elif chain is taken
ScoreLines(xml_result) ==
    {k \in 1..Len(xml_result) :
        /\ "Hsp_bit-score" \in xml_result[k].tags
        /\ "Hsp_identity" \notin xml_result[k].tags
        /\ "Hsp_align-len" \notin xml_result[k].tags}

\* more than 99 percent and more than 54998 (tenths)
Above(pi, bs) == pi[1] > 99 * pi[2] /\ bs > 549980

Returned == pc = "extract_done" /\ ~ret.detailed.raised

C12_ValuesOfQualifyingRecord ==
    Returned =>
        /\ ret.detailed.best_match_id = 1 =>
              Above(ret.detailed.percent_identity, ret.detailed.bit_score)
        /\ ret.detailed.best_match_id = -1 =>
              /\ ret.detailed.percent_identity[1] = 0
              /\ ret.detailed.bit_score = 0

C12_QualifyingValuesOnlyWithMatch ==
    Returned =>
        /\ Above(ret.detailed.percent_identity, ret.detailed.bit_score) =>
              ret.detailed.best_match_id = 1
        /\ (NoMarker(arg) \/ ScoreLines(arg) = {}) =>
              /\ ret.detailed.percent_identity[1] = 0
              /\ ret.detailed.bit_score = 0

C12_Witness ==
    /\ Returned
    /\ arg = Iterations \o Record(IntField(100), IntField(100), IntField(54999))
                        \o <<Line({"Hsp_bit-score"}, IntField(54998))>>
    /\ ret.detailed.best_match_id = 1
    /\ ret.detailed.bit_score = 549980

(***************************************************************************)
(* C13: when no input path is given, or the file at the path is missing or *)
(* cannot be read, the process ends with a non-zero exit status before     *)
(* anything else happens: no chunk is submitted, no status is asked for,   *)
(* no report is fetched and no output file is created.                     *)
(***************************************************************************)
FatalInput ==
    \/ Len(argv) < 2
    \/ Len(argv) >= 2 /\ FS[argv[2]].kind \in {"missing", "unreadable"}

C13_NothingDone ==
    FatalInput =>
        /\ pc \in {"start", "load", "exit1", "error"}
        /\ chunks = <<>> /\ jobs = <<>> /\ results = <<>>
        /\ wire = NoRequest
        /\ ~out.created /\ out.lines = <<>>

C13_FatalInputAborts ==
    /\ []C13_NothingDone
    /\ [](FatalInput => <>(exit_status = 1))

C13_Witness ==
    /\ input_file = "unreadable.fa"
    /\ exit_status = 1
    /\ wire = NoRequest
    /\ ~out.created

(***************************************************************************)
(* C14: no report makes an extractor raise: on every report, also one      *)
(* whose records lack fields, have them out of the order identity,         *)
(* alignment length, bit score, or hold text that is no number, the simple *)
(* and the detailed extractor both return a verdict, and on a report that  *)
(* is not made of whole records in order that verdict is -1.               *)
(***************************************************************************)
IsHspLine(line) == line.tags \cap {"Hsp_identity", "Hsp_align-len", "Hsp_bit-score"} # {}

\* the record lines are whole records: identity, alignment length and
\* bit score in this order, each with a number for its field
WellFormed(xml_result) ==
    LET body == SelectSeq(xml_result, IsHspLine)
    IN  /\ Len(body) % 3 = 0
        /\ \A r \in 0..((Len(body) \div 3) - 1) :
              /\ body[3 * r + 1].tags = {"Hsp_identity"}
              /\ body[3 * r + 1].field.k = "int"
              /\ body[3 * r + 2].tags = {"Hsp_align-len"}
              /\ body[3 * r + 2].field.k = "int"
              /\ body[3 * r + 3].tags = {"Hsp_bit-score"}
              /\ body[3 * r + 3].field.k \in {"int", "dec"}

C14_NeverRaises ==
    pc = "extract_done" =>
        /\ ~ret.simple.raised
        /\ ~ret.detailed.raised
        /\ ~WellFormed(arg) =>
              /\ ret.simple.best_match_id = -1
              /\ ret.detailed.best_match_id = -1

(***************************************************************************)
(* C15: the chunks returned by process_sequence concatenate to the         *)
(* sequence of the file (its lines that are no header, without their       *)
(* blanks) when that has at most max_sequence_length characters, and to    *)
(* its first max_sequence_length characters when it is longer; so a run    *)
(* submits at most 5 chunks, none longer than 1000 characters.             *)
(***************************************************************************)
IsResidue(t) == t # WS

\* the text of the lines of a file that do not start with ">", blanks dropped
SequenceOf(file) ==
    LET body == SelectSeq(file.lines, LAMBDA l : l = <<>> \/ l[1] # GT)
    IN  SelectSeq(Concat(body), IsResidue)

\* what the loader is to return for each file that can be read
Truncated ==
    [path \in {p \in Paths : FS[p].kind = "text"} |->
        LET s == SequenceOf(FS[path])
        IN  IF Len(s) <= 5000 THEN s ELSE SubSeq(s, 1, 5000)]

C15_TruncatesByPrefix ==
    /\ Len(chunks) <= 5
    /\ \A k \in 1..Len(chunks) : Len(chunks[k]) <= 1000
    /\ \A k \in 1..Len(jobs) : jobs[k].submits > 0 => k <= 5
    /\ (pc \notin {"start", "load", "exit1"} /\ input_file \in DOMAIN Truncated)
          => Concat(chunks) = Truncated[input_file]

C15_Witness ==
    /\ input_file = "long.fa"
    /\ Len(SequenceOf(FS[input_file])) > 5000
    /\ Len(chunks) = 5
    /\ chunks[5][Len(chunks[5])] = 5000
    /\ jobs[5].submits = 1

(***************************************************************************)
(* C16: the poll loop does not give up.  While the status requests for the *)
(* current job are answered only Waiting or Unknown the driver stays with  *)
(* that job, however many requests there have been: another request that   *)
(* does not end the loop is always possible, no report is fetched, no      *)
(* later chunk is submitted, nothing is written, and an Unknown answer     *)
(* leads neither to a skip nor to the end of the run.                      *)
(***************************************************************************)
Polling == pc \in {"poll", "sleep"}

C16_WhilePolling ==
    Polling =>
        /\ i \in 1..Len(chunks)
        /\ IsJobId(rid) /\ jobs[i].rid = rid
        /\ jobs[i].fetches = 0
        /\ Len(results) < i
        /\ \A k \in (i + 1)..Len(chunks) : jobs[k] = NoJob
        /\ ~out.created /\ out.lines = <<>>
        /\ pc = "poll" => ENABLED (Poll /\ pc' = "poll")
        /\ pc = "poll" => ENABLED (Poll /\ pc' = "sleep")

\* a step taken while polling either stays with the job, leaving all but
\* the record of the request as it was, or follows a READY answer
C16_OnlyReadyEnds ==
    [][Polling =>
          \/ /\ pc' = "fetch"
             /\ status' = "True"
             /\ jobs'[i].ready_rid = rid
          \/ /\ Polling'
             /\ status' # "True"
             /\ UNCHANGED <<i, rid, chunks, results, out>>
             /\ jobs' = [jobs EXCEPT ![i].polled = jobs'[i].polled]
             /\ jobs'[i].ready_rid = None]_vars

C16_NoGiveUp == []C16_WhilePolling /\ C16_OnlyReadyEnds

C16_Witness ==
    /\ pc = "poll"
    /\ i = 2
    /\ wire = [cmd |-> "Status", of |-> 2, rid |-> rid]
    /\ status = None
    /\ jobs[2].polled /\ jobs[2].ready_rid = None

(***************************************************************************)
(* C17: between two status requests for one job the driver sleeps once     *)
(* when the earlier one was answered Waiting and not at all when it was    *)
(* answered Unknown; it sleeps nowhere else: not after Ready, not after a  *)
(* submission, not between chunks.                                         *)
(***************************************************************************)
\* the driver sleeps only with a Waiting answer to the last request, which
\* was a status request for the current job
C17_SleepsAfterWaiting ==
    pc = "sleep" =>
        /\ status = "False"
        /\ wire = [cmd |-> "Status", of |-> i, rid |-> rid]
        /\ jobs[i].ready_rid = None
        /\ jobs[i].fetches = 0

C17_SleepSteps ==
    [][/\ (pc' = "sleep" /\ pc # "sleep") => (pc = "poll" /\ status' = "False")
       /\ (pc = "poll" /\ status' = "False") => pc' = "sleep"
       /\ (pc = "poll" /\ status' = None) => pc' = "poll"
       /\ (pc = "poll" /\ status' = "True") => pc' = "fetch"
       /\ pc = "sleep" =>
             /\ pc' = "poll"
             /\ UNCHANGED <<i, rid, status, jobs, wire, results, out>>]_vars

C17_SleepOnlyAfterWaiting == []C17_SleepsAfterWaiting /\ C17_SleepSteps

C17_Witness ==
    /\ pc = "sleep"
    /\ i = 2
    /\ status = "False"
    /\ jobs[1].fetches = 1

(***************************************************************************)
(* C18: within a report the accumulators are carried from record to        *)
(* record.  On a bit-score line the percent identity is worked out anew    *)
(* from the identity and the alignment length seen last when that length   *)
(* is positive, and is otherwise the value worked out before; the test     *)
(* "more than 99 and more than 54998" uses this value, so that a later     *)
(* record with alignment length 0 and a bit score above 54998 qualifies    *)
(* after a record that left the percent identity above 99.  The verdict is *)
(* 1 exactly when some bit-score line qualified.                           *)
(***************************************************************************)
MaxOf(S) == CHOOSE m \in S : \A n \in S : n <= m

\* the lines up to line k on which the identity branch, and on which the
\* alignment-length branch, of the elif chain is taken
IdentityLinesTo(xml_result, k) ==
    {j \in 1..k : "Hsp_identity" \in xml_result[j].tags}

AlignLinesTo(xml_result, k) ==
    {j \in 1..k : /\ "Hsp_align-len" \in xml_result[j].tags
                  /\ "Hsp_identity" \notin xml_result[j].tags}

\* the identity and the alignment length seen last at line k (0 if none)
IdentityAt(xml_result, k) ==
    IF IdentityLinesTo(xml_result, k) = {} THEN 0
    ELSE xml_result[MaxOf(IdentityLinesTo(xml_result, k))].field.n

AlignAt(xml_result, k) ==
    IF AlignLinesTo(xml_result, k) = {} THEN 0
    ELSE xml_result[MaxOf(AlignLinesTo(xml_result, k))].field.n

\* the percent identity carried at line k
RECURSIVE PercentAt(_, _)
PercentAt(xml_result, k) ==
    IF k = 0 THEN <<0, 1>>
    ELSE IF k \in ScoreLines(xml_result) /\ AlignAt(xml_result, k) > 0
    THEN <<100 * IdentityAt(xml_result, k), AlignAt(xml_result, k)>>
    ELSE PercentAt(xml_result, k - 1)

ScoreAt(xml_result, k) ==
    IF xml_result[k].field.k = "int" THEN 10 * xml_result[k].field.n
    ELSE xml_result[k].field.n

QualifiesAt(xml_result, k) ==
    Above(PercentAt(xml_result, k), ScoreAt(xml_result, k))

CarriedReport ==
    Iterations \o Record(IntField(100), IntField(100), IntField(54998))
               \o <<Line({"Hsp_align-len"}, IntField(0)),
                    Line({"Hsp_bit-score"}, IntField(54999))>>

C18_AccumulatorsCarried ==
    (Returned /\ ~NoMarker(arg)) =>
        /\ ret.detailed.best_match_id \in {1, -1}
        /\ ret.detailed.best_match_id = 1
              <=> \E k \in ScoreLines(arg) : QualifiesAt(arg, k)
        /\ ret.detailed.percent_identity = PercentAt(arg, Len(arg))
        /\ arg = CarriedReport => ret.detailed.best_match_id = 1

C18_Witness ==
    /\ Returned
    /\ arg = CarriedReport
    /\ ~QualifiesAt(arg, 4) /\ QualifiesAt(arg, 6)
    /\ ret.detailed.best_match_id = 1

(***************************************************************************)
(* C19: in detailed mode, for a report with the iterations marker, the     *)
(* percent identity and the bit score returned are the values of the       *)
(* accumulators after the last bit-score line: the bit score of that line  *)
(* and the percent identity as last worked out, whether or not that line,  *)
(* or any line, qualified.                                                 *)
(***************************************************************************)
C19_ValuesAfterLastScoreLine ==
    (Returned /\ ~NoMarker(arg) /\ ScoreLines(arg) # {}) =>
        LET last == MaxOf(ScoreLines(arg))
        IN  /\ ret.detailed.bit_score = ScoreAt(arg, last)
            /\ ret.detailed.percent_identity = PercentAt(arg, last)

C19_Witness ==
    /\ Returned
    /\ arg = Iterations \o Record(IntField(99), IntField(100), IntField(54999))
    /\ ret.detailed.best_match_id = -1
    /\ ret.detailed.percent_identity = <<9900, 100>>
    /\ ret.detailed.bit_score = 549990

(***************************************************************************)
(* C20: after a run with N chunks of which R were fetched, the results     *)
(* list holds the R reports in the order of submission and the writer      *)
(* pairs the i-th chunk with the i-th report: lines are written for the    *)
(* first R chunks, all of them, and for no other chunk, whichever chunks   *)
(* were skipped, each line with the verdict of the report at the place of  *)
(* its chunk.                                                              *)
(***************************************************************************)
Fetched == {k \in 1..Len(jobs) : jobs[k].fetches > 0}

\* the n-th chunk fetched
NthFetched(n) == CHOOSE k \in Fetched : Cardinality({j \in Fetched : j <= k}) = n

RunOver == pc \in {"done", "error"} /\ out.created

C20_PairsByPosition ==
    /\ results = [n \in 1..Cardinality(Fetched) |-> jobs[NthFetched(n)].report]
    /\ RunOver =>
          LET R == Cardinality(Fetched)
          IN  /\ Concat([n \in 1..Len(out.lines) |-> out.lines[n].part])
                    = Concat(SubSeq(chunks, 1, R))
              /\ \A n \in 1..Len(out.lines) :
                    LET k == OwnerIn(chunks, out.lines[n].part)
                    IN  /\ k <= R
                        /\ out.lines[n].best_match_id =
                              parse_blast_result_detailed(results[k]).best_match_id

=============================================================================
